---- MODULE Spec2Model ----
(***************************************************************************)
(* axum-negotiate: the SPNEGO/Negotiate authentication middleware of       *)
(* src/src/lib.rs, as a state machine.                                     *)
(*                                                                         *)
(* Text (header values, the SPN, base64) is a sequence of byte values, so  *)
(* that prefixes, base64 symbols and padding are computed, not assumed.    *)
(* Each request is one future created by NegotiateAuthLayerMiddleware::call*)
(* whose position in the async block is fut[r].pc.                         *)
(***************************************************************************)
EXTENDS Integers, Sequences, FiniteSets, TLC

\* ------------------------------------------------------------------ bounds
\* Longest text after the scheme prefix of an Authorization header.
MaxRem == 4
\* Longest continuation token the security context hands back from step.
MaxTok == 2
\* Most clones made of the middleware.
MaxClones == 1
\* Longest token text, over eight characters, given to the decoder.
MaxCodec == 4
\* Longest token text, over three characters, given to the decoder.
MaxLong == 8
\* Longest continuation token given to the encoder.
MaxCodecTok == 4

\* ------------------------------------------------------- Option and Result
None == [some |-> FALSE]
Some(x) == [some |-> TRUE, v |-> x]
Ok(x) == [ok |-> TRUE, v |-> x]
Err(x) == [ok |-> FALSE, e |-> x]

\* All sequences over S of length 0..n.
RECURSIVE SeqsUpTo(_, _)
SeqsUpTo(S, n) ==
    IF n = 0 THEN {<<>>}
    ELSE LET shorter == SeqsUpTo(S, n - 1)
         IN  shorter \cup {Append(s, x) : s \in {t \in shorter : Len(t) = n - 1}, x \in S}

\* Record rec with the fields of upd overwritten.
Merge(rec, upd) ==
    [k \in DOMAIN rec |-> IF k \in DOMAIN upd THEN upd[k] ELSE rec[k]]

\* ------------------------------------------------------------------- text
\* "Negotiate", the static challenge of the 401 response.
Negotiate == <<78, 101, 103, 111, 116, 105, 97, 116, 101>>
\* "Negotiate ", the scheme prefix of the request header and of the challenge.
NegotiatePrefix == Negotiate \o <<32>>
\* "Basic", another scheme.
Basic == <<66, 97, 115, 105, 99>>

\* http::HeaderValue::to_str: Some(text) iff every byte is visible ASCII or tab.
to_str(hv) ==
    IF \A i \in 1..Len(hv) : (hv[i] >= 32 /\ hv[i] < 127) \/ hv[i] = 9
    THEN Some(hv) ELSE None

\* strip_prefix comparing without regard to ASCII case.
strip_prefix_ignore_case(s, p) ==
    LET lower(c) == IF c >= 65 /\ c <= 90 THEN c + 32 ELSE c
    IN  IF /\ Len(s) >= Len(p)
           /\ \A i \in 1..Len(p) : lower(s[i]) = lower(p[i])
        THEN [some |-> TRUE, v |-> SubSeq(s, Len(p) + 1, Len(s))]
        ELSE [some |-> FALSE]

\* str::strip_prefix: the text after prefix p, when s starts with p.
strip_prefix(s, p) ==
    IF Len(s) >= Len(p) /\ SubSeq(s, 1, Len(p)) = p
    THEN Some(SubSeq(s, Len(p) + 1, Len(s))) ELSE None

\* str::is_ascii
is_ascii(s) == \A i \in 1..Len(s) : s[i] < 128

\* A parser that also refuses the padding character '='.
parse_header_value_no_padding(s) ==
    IF \A i \in 1..Len(s) : (s[i] >= 32 /\ s[i] # 127 /\ s[i] # 61) \/ s[i] = 9
    THEN Some(s) ELSE None

\* HeaderValue::from_str (str::parse): every byte is >= 32 and not DEL, or tab.
parse_header_value(s) ==
    IF \A i \in 1..Len(s) : (s[i] >= 32 /\ s[i] # 127) \/ s[i] = 9
    THEN Some(s) ELSE None

\* ----------------------------------------------------------------- base64
\* The i-th symbol of the standard alphabet: A-Z a-z 0-9 + /
Symbol(i) ==
    IF i < 26 THEN 65 + i
    ELSE IF i < 52 THEN 97 + (i - 26)
    ELSE IF i < 62 THEN 48 + (i - 52)
    ELSE IF i = 62 THEN 43 ELSE 47

IsSymbol(c) ==
    \/ c >= 65 /\ c <= 90
    \/ c >= 97 /\ c <= 122
    \/ c >= 48 /\ c <= 57
    \/ c = 43
    \/ c = 47

SymbolValue(c) ==
    IF c >= 65 /\ c <= 90 THEN c - 65
    ELSE IF c >= 97 /\ c <= 122 THEN c - 97 + 26
    ELSE IF c >= 48 /\ c <= 57 THEN c - 48 + 52
    ELSE IF c = 43 THEN 62 ELSE 63

\* One group encoded without the padding (the NO_PAD engine).
EncodeChunk_unpadded(b) ==
    IF Len(b) = 3 THEN
        LET n == b[1] * 65536 + b[2] * 256 + b[3]
        IN  <<Symbol(n \div 262144), Symbol((n \div 4096) % 64),
              Symbol((n \div 64) % 64), Symbol(n % 64)>>
    ELSE IF Len(b) = 2 THEN
        LET n == (b[1] * 256 + b[2]) * 4
        IN  <<Symbol(n \div 4096), Symbol((n \div 64) % 64), Symbol(n % 64)>>
    ELSE
        LET n == b[1] * 16
        IN  <<Symbol(n \div 64), Symbol(n % 64)>>

\* One group of 1..3 bytes as 4 characters, padded with '='.
EncodeChunk(b) ==
    IF Len(b) = 3 THEN
        LET n == b[1] * 65536 + b[2] * 256 + b[3]
        IN  <<Symbol(n \div 262144), Symbol((n \div 4096) % 64),
              Symbol((n \div 64) % 64), Symbol(n % 64)>>
    ELSE IF Len(b) = 2 THEN
        LET n == (b[1] * 256 + b[2]) * 4
        IN  <<Symbol(n \div 4096), Symbol((n \div 64) % 64), Symbol(n % 64), 61>>
    ELSE
        LET n == b[1] * 16
        IN  <<Symbol(n \div 64), Symbol(n % 64), 61, 61>>

\* STANDARD.encode: standard alphabet, with padding.
RECURSIVE Encode(_)
Encode(bytes) ==
    IF Len(bytes) = 0 THEN <<>>
    ELSE IF Len(bytes) <= 3 THEN EncodeChunk(bytes)
    ELSE EncodeChunk(SubSeq(bytes, 1, 3)) \o Encode(SubSeq(bytes, 4, Len(bytes)))

\* Number of '=' characters ending s (at most 3 are counted).
Padding(s) ==
    IF Len(s) >= 1 /\ s[Len(s)] = 61 THEN
        IF Len(s) >= 2 /\ s[Len(s) - 1] = 61 THEN
            IF Len(s) >= 3 /\ s[Len(s) - 2] = 61 THEN 3 ELSE 2
        ELSE 1
    ELSE 0

\* The bytes of one group of 4 characters of which the last pad are '='.
DecodeQuad(q, pad) ==
    IF pad = 0 THEN
        LET n == SymbolValue(q[1]) * 262144 + SymbolValue(q[2]) * 4096
                 + SymbolValue(q[3]) * 64 + SymbolValue(q[4])
        IN  <<n \div 65536, (n \div 256) % 256, n % 256>>
    ELSE IF pad = 1 THEN
        LET n == SymbolValue(q[1]) * 4096 + SymbolValue(q[2]) * 64 + SymbolValue(q[3])
        IN  <<n \div 1024, (n \div 4) % 256>>
    ELSE
        LET n == SymbolValue(q[1]) * 64 + SymbolValue(q[2])
        IN  <<n \div 16>>

\* The bits of the last symbol that no byte takes must be zero.
TrailingBitsZero(q, pad) ==
    IF pad = 0 THEN TRUE
    ELSE IF pad = 1 THEN SymbolValue(q[3]) % 4 = 0
    ELSE SymbolValue(q[2]) % 16 = 0

RECURSIVE DecodeQuads(_, _)
DecodeQuads(s, pad) ==
    IF Len(s) = 0 THEN <<>>
    ELSE IF Len(s) = 4 THEN DecodeQuad(s, pad)
    ELSE DecodeQuad(SubSeq(s, 1, 4), 0) \o DecodeQuads(SubSeq(s, 5, Len(s)), pad)

\* STANDARD.decode: standard alphabet, canonical padding required, no
\* non-zero trailing bits; Ok(bytes) or Err.
Decode(s) ==
    LET pad == Padding(s)
    IN  IF /\ Len(s) % 4 = 0
           /\ pad <= 2
           /\ \A i \in 1..(Len(s) - pad) : IsSymbol(s[i])
           /\ Len(s) > 0 => TrailingBitsZero(SubSeq(s, Len(s) - 3, Len(s)), pad)
        THEN Ok(DecodeQuads(s, pad))
        ELSE Err("DecodeError")

\* ------------------------------------------------ errors and responses
\* An HTTP response: status, body and the values of its WWW-Authenticate header.
Response(status, body, www) ==
    [status |-> status, body |-> body, www_authenticate |-> www]

\* A value of enum Error; src is what the variant carries.
Error(kind) == [kind |-> kind, src |-> None]
ErrorFrom(kind, src) == [kind |-> kind, src |-> Some(src)]

\* NextMiddlewareError::box_into_response: the inner error's own response.
box_into_response(error) == error.resp

\* into_response with InvalidGssapiData in the arm of the 401 challenge.
into_response_bad_data_unauthorized(self) ==
    IF self.kind \in {"InvalidSpn", "MultipassSpnego", "GssApi"} THEN
        Response(500, "internal server error", <<>>)
    ELSE IF self.kind = "NextMiddleware" THEN
        box_into_response(self.src.v)
    ELSE
        Response(401, "unauthorized", <<Negotiate>>)

\* into_response with MultipassSpnego answered as a challenge to go on.
into_response_multipass_challenge(self) ==
    IF self.kind \in {"InvalidSpn", "GssApi"} THEN
        Response(500, "internal server error", <<>>)
    ELSE IF self.kind = "NextMiddleware" THEN
        box_into_response(self.src.v)
    ELSE IF self.kind = "InvalidGssapiData" THEN
        Response(400, "bad request", <<>>)
    ELSE
        Response(401, "unauthorized", <<Negotiate>>)

\* into_response with the text of the primitive's error as the body.
into_response_error_text(self) ==
    IF self.kind \in {"InvalidSpn", "MultipassSpnego"} THEN
        Response(500, "internal server error", <<>>)
    ELSE IF self.kind = "GssApi" THEN
        Response(500, self.src.v, <<>>)
    ELSE IF self.kind = "NextMiddleware" THEN
        box_into_response(self.src.v)
    ELSE IF self.kind = "InvalidGssapiData" THEN
        Response(400, "bad request", <<>>)
    ELSE
        Response(401, "unauthorized", <<Negotiate>>)

\* into_response with the 401 challenge header on every rejection.
into_response_challenge_everywhere(self) ==
    IF self.kind \in {"InvalidSpn", "MultipassSpnego", "GssApi"} THEN
        Response(500, "internal server error", <<Negotiate>>)
    ELSE IF self.kind = "NextMiddleware" THEN
        box_into_response(self.src.v)
    ELSE IF self.kind = "InvalidGssapiData" THEN
        Response(400, "bad request", <<Negotiate>>)
    ELSE
        Response(401, "unauthorized", <<Negotiate>>)

\* impl IntoResponse for Error
into_response(self) ==
    IF self.kind \in {"InvalidSpn", "MultipassSpnego", "GssApi"} THEN
        Response(500, "internal server error", <<>>)
    ELSE IF self.kind = "NextMiddleware" THEN
        box_into_response(self.src.v)
    ELSE IF self.kind = "InvalidGssapiData" THEN
        Response(400, "bad request", <<>>)
    ELSE \* UpnExtensionNotFound | InvalidAuthorizationHeader
        Response(401, "unauthorized", <<Negotiate>>)

\* HeaderMap::append in the place of insert: the values the name had stay.
append_header(response, value) ==
    [response EXCEPT !.www_authenticate = Append(@, value)]

\* HeaderMap::insert: the value replaces every value the name had.
insert_header(response, value) ==
    [response EXCEPT !.www_authenticate = <<value>>]

\* The text of the challenge: "Negotiate " and the token in base64, or
\* nothing after the space when step gave no token.
challenge(token) ==
    NegotiatePrefix \o (IF token.some THEN Encode(token.v) ELSE <<>>)

\* Name::to_string: the text the name displays as.
to_string(name) == name.display

\* The principal inserted into a copy of the extensions, which is then lost.
insert_upn_into_copy(extensions, upn) == extensions

\* Extensions::insert::<Upn>
insert_upn(extensions, upn) == [extensions EXCEPT !.Upn = Some(upn)]

\* from_request_parts with unwrap_or_default in the place of ok_or.
from_request_parts_or_default(parts) ==
    IF parts.extensions.Upn.some
    THEN Ok(parts.extensions.Upn.v)
    ELSE Ok("")

\* Upn::from_request_parts: the Upn extension, cloned, or UpnExtensionNotFound.
from_request_parts(parts) ==
    IF parts.extensions.Upn.some
    THEN Ok(parts.extensions.Upn.v)
    ELSE Err(Error("UpnExtensionNotFound"))

\* str::to_owned / String::clone: a copy of the text, byte for byte.
to_owned(s) == SubSeq(s, 1, Len(s))

\* mem::replace(dest, src): src is stored and what dest held is returned.
\* Here the clone is left in the place of an instance and the instance is
\* given to the caller, where it should have been the other way round.
mem_replace_keeps_dest(dest, src) == [stored |-> dest, returned |-> src]

\* mem::replace(dest, src): src is stored and what dest held is returned.
mem_replace(dest, src) == [stored |-> src, returned |-> dest]

\* new without the check of is_ascii.
new_unchecked(spn) == [ok |-> TRUE, v |-> [spn |-> spn]]

\* NegotiateAuthLayer::new
new(spn) ==
    IF is_ascii(spn) THEN Ok([spn |-> spn]) ELSE Err(Error("InvalidSpn"))

\* ------------------------------------------------------------ environment
\* Service principal names offered to NegotiateAuthLayer::new:
\* "HTTP/a" and "HTTP/" followed by U+00E9 in UTF-8.
Spns == {<<72, 84, 84, 80, 47, 97>>, <<72, 84, 84, 80, 47, 195, 169>>}

\* Characters after the scheme: 'A' (0), 'J' (9), '=', '!' and a non-ASCII byte.
RemChars == {65, 74, 61, 33, 255}
\* What a header starts with: "Negotiate ", "Negotiate", "negotiate ",
\* "Basic " and nothing.
Prefixes ==
    {NegotiatePrefix, Negotiate, <<110>> \o SubSeq(NegotiatePrefix, 2, 10),
     Basic \o <<32>>, <<>>}
\* The Authorization header of a request: absent, or a value.
Headers ==
    {None} \cup {Some(p \o s) : p \in Prefixes, s \in SeqsUpTo(RemChars, MaxRem)}
\* The requests that reach a handler with no middleware in front of it.
DirectHeaders == {None, Some(NegotiatePrefix)}

\* Errors of the security primitive (libgssapi::error::Error), by their text.
GssErrors == {"GSS_S_NO_CRED", "GSS_S_FAILURE"}
\* Continuation tokens of step.
TokBytes == {1, 2, 255}
Tokens == {None} \cup {Some(t) : t \in SeqsUpTo(TokBytes, MaxTok)}
\* Identities source_name can report: a Name, with the text it displays as.
Names == {[display |-> "alice@EXAMPLE.COM"], [display |-> "bob@EXAMPLE.COM"]}

\* What the inner service can answer: a response of its own, with or
\* without WWW-Authenticate values of its own, or an error that renders itself.
InnerResponses ==
    {Response(200, "hello", <<>>),
     Response(200, "hello", <<Basic>>),
     Response(404, "not found", <<NegotiatePrefix \o <<65, 65, 65, 65>>, Basic>>)}
InnerErrors ==
    {[name |-> "timeout", resp |-> Response(503, "unavailable", <<>>)],
     [name |-> "denied", resp |-> Response(403, "denied", <<Basic>>)]}

\* The requests of the model.
Reqs == {1}

\* ------------------------------------------------------------------ state
VARIABLES
    layer,  \* the NegotiateAuthLayer: None, or Some([arg, result]) of new
    mw,     \* the NegotiateAuthLayerMiddleware: None, or Some([inner, spn])
    insts,  \* the instances of the inner service: id -> [ready, calls]
    poll,   \* what poll_ready last returned, until call uses it up
    clones, \* the middlewares made by Clone::clone: a sequence of [inner, spn]
    fut,    \* per request: the future of call and the locals of its async block
    log     \* per request: the entries sent to the log sink

vars == <<layer, mw, insts, poll, clones, fut, log>>

\* The security context of a request (libgssapi ServerCtx): whether the
\* future holds it, whether step succeeded on it, whether it is complete,
\* and the identity it established, once asked.
NoCtx == [state |-> "none", stepped |-> FALSE, complete |-> FALSE, source |-> None]
\* A context that outlives the local that held it.
Drop_leak(ctx) == ctx
\* A local that goes out of scope: the context is deleted, if there is one.
Drop(ctx) == IF ctx.state = "live" THEN [ctx EXCEPT !.state = "dropped"] ELSE ctx

\* The completion of the context not looked at.
is_complete_unchecked(ctx) == TRUE

\* The completion of the context read the wrong way round.
is_complete_inverted(ctx) == ~ctx.complete

\* ServerCtx::is_complete, as line 204 reads it
is_complete(ctx) == ctx.complete

\* A request nobody dispatched yet.
Idle ==
    [pc |-> "idle", via |-> "none",
     req |-> [authorization |-> None, extensions |-> [Upn |-> None]],
     inner |-> None, spn |-> None,
     authorization_header |-> None, gssapi_data |-> None,
     ctx |-> NoCtx, token |-> None, is_complete |-> None, upn |-> None,
     acquires |-> 0, steps |-> 0, names |-> 0,
     extracted |-> None, inner_result |-> None,
     result |-> None, response |-> None]

Init ==
    /\ layer = None
    /\ mw = None
    /\ insts = <<>>
    /\ poll = None
    /\ clones = <<>>
    /\ fut = [r \in Reqs |-> Idle]
    /\ log = [r \in Reqs |-> <<>>]

\* The future of r moves on with the given locals changed.
Goto(r, upd) == fut' = [fut EXCEPT ![r] = Merge(@, upd)]

\* The async block of r returns early, before it made a security context.
Return(r, result) ==
    Goto(r, [pc |-> "returned", result |-> Some(result)])

Log(r, level, msg) ==
    log' = [log EXCEPT ![r] = Append(@, [level |-> level, msg |-> msg])]

\* --------------------------------------------------------- construction
\* NegotiateAuthLayer::new(spn) for an spn of S; the result is kept with
\* the argument of the call.
NewFrom(S) ==
    /\ layer = None
    /\ \E spn \in S : layer' = Some([arg |-> spn, result |-> new(spn)])
    /\ UNCHANGED <<mw, insts, poll, clones, fut, log>>

\* NegotiateAuthLayer::new(spn)
New == NewFrom(Spns)

\* Layer::layer(&self, inner): the middleware around the first instance of
\* the inner service, with a copy of the layer's SPN.
LayerOn ==
    /\ layer.some /\ layer.v.result.ok
    /\ mw = None
    /\ mw' = Some([inner |-> 1, spn |-> to_owned(layer.v.result.v.spn)])
    /\ insts' = <<[ready |-> FALSE, calls |-> 0]>>
    /\ UNCHANGED <<layer, poll, clones, fut, log>>

\* poll_ready, lines 165-172: the inner service held by the middleware is
\* polled; it reports ready, or fails with an error that is passed on as
\* NextMiddleware (a pending poll changes nothing). The caller polls for a
\* request it is about to dispatch, and gives up a service that failed.
PollReady ==
    /\ mw.some
    /\ \E r \in DOMAIN fut : fut[r].pc = "idle"
    /\ poll = None
    /\ \/ /\ insts' = [insts EXCEPT ![mw.v.inner].ready = TRUE]
          /\ poll' = Some(Ok(mw.v.inner))
       \/ /\ \E e \in InnerErrors :
                poll' = Some(Err(ErrorFrom("NextMiddleware", e)))
          /\ UNCHANGED insts
    /\ UNCHANGED <<layer, mw, clones, fut, log>>

\* ------------------------------------------------------------------ call
\* call(&mut self, req): lines 175-180. The middleware keeps a clone of the
\* inner service and the future takes the instance that was polled ready.
Call(r, H) ==
    /\ fut[r].pc = "idle"
    /\ mw.some
    /\ poll = Some(Ok(mw.v.inner))
    /\ insts[mw.v.inner].ready
    /\ \E h \in H :
        LET clone == Len(insts) + 1
            swap == mem_replace(mw.v.inner, clone)
        IN  /\ insts' = Append(insts, [ready |-> FALSE, calls |-> 0])
            /\ mw' = Some([mw.v EXCEPT !.inner = swap.stored])
            /\ Goto(r, [pc |-> "get_header", via |-> "mw",
                        req |-> [authorization |-> h, extensions |-> [Upn |-> None]],
                        inner |-> Some(swap.returned),
                        spn |-> Some(to_owned(mw.v.spn))])
    /\ poll' = None
    /\ UNCHANGED <<layer, clones, log>>

\* req.headers().get(AUTHORIZATION).and_then(|x| x.to_str().ok()), lines 181-188
GetAuthorizationHeader(r) ==
    /\ fut[r].pc = "get_header"
    /\ LET h == fut[r].req.authorization
           authorization_header == IF h.some THEN to_str(h.v) ELSE None
       IN  IF authorization_header.some
           THEN /\ Goto(r, [pc |-> "strip_prefix",
                            authorization_header |-> authorization_header])
                /\ UNCHANGED log
           ELSE /\ Return(r, Err(Error("InvalidAuthorizationHeader")))
                /\ Log(r, "debug", "authorization header not present")
    /\ UNCHANGED <<layer, mw, insts, poll, clones>>

\* authorization_header.strip_prefix("Negotiate "), lines 190-193
StripPrefix(r) ==
    /\ fut[r].pc = "strip_prefix"
    /\ LET gssapi_data == strip_prefix(fut[r].authorization_header.v, NegotiatePrefix)
       IN  IF gssapi_data.some
           THEN /\ Goto(r, [pc |-> "decode", gssapi_data |-> gssapi_data])
                /\ UNCHANGED log
           ELSE /\ Return(r, Err(Error("InvalidAuthorizationHeader")))
                /\ Log(r, "debug", "authorization header has no prefix \"Negotiate\"")
    /\ UNCHANGED <<layer, mw, insts, poll, clones>>

\* STANDARD.decode(gssapi_data), lines 195-198
DecodeGssapiData(r) ==
    /\ fut[r].pc = "decode"
    /\ LET gssapi_data == Decode(fut[r].gssapi_data.v)
       IN  IF gssapi_data.ok
           THEN /\ Goto(r, [pc |-> "new_server_ctx", gssapi_data |-> Some(gssapi_data.v)])
                /\ UNCHANGED log
           ELSE /\ Return(r, Err(Error("InvalidGssapiData")))
                /\ Log(r, "debug", "authorization header gssapi_data contains invalid base64")
    /\ UNCHANGED <<layer, mw, insts, poll, clones>>

\* new_server_ctx answering from a cache of contexts: a request takes the
\* established context of another request in flight, and skips its own step.
NewServerCtx_cached(r) ==
    /\ fut[r].pc = "new_server_ctx"
    /\ IF \E q \in DOMAIN fut : q # r /\ fut[q].ctx.state = "live" /\ fut[q].ctx.complete
       THEN \E q \in DOMAIN fut :
               /\ q # r /\ fut[q].ctx.state = "live" /\ fut[q].ctx.complete
               /\ Goto(r, [pc |-> "source_name", acquires |-> fut[r].acquires + 1,
                           ctx |-> fut[q].ctx])
       ELSE \/ Goto(r, [pc |-> "step", acquires |-> fut[r].acquires + 1,
                        ctx |-> [NoCtx EXCEPT !.state = "live"]])
            \/ \E e \in GssErrors :
                 Goto(r, [pc |-> "returned", acquires |-> fut[r].acquires + 1,
                          result |-> Some(Err(ErrorFrom("GssApi", e)))])
    /\ UNCHANGED <<layer, mw, insts, poll, clones, log>>

\* An acquisition that is tried again after it failed.
NewServerCtx_retry(r) ==
    /\ fut[r].pc = "new_server_ctx"
    /\ \/ Goto(r, [pc |-> "step", acquires |-> fut[r].acquires + 1,
                   ctx |-> [NoCtx EXCEPT !.state = "live"]])
       \/ Goto(r, [pc |-> "new_server_ctx", acquires |-> fut[r].acquires + 1])
    /\ UNCHANGED <<layer, mw, insts, poll, clones, log>>

\* new_server_ctx(&spn)?, line 200 and lines 232-241: the name, the
\* mechanism set and the credential are acquired, each of which can fail.
NewServerCtx(r) ==
    /\ fut[r].pc = "new_server_ctx"
    /\ \/ Goto(r, [pc |-> "step", acquires |-> fut[r].acquires + 1,
                   ctx |-> [NoCtx EXCEPT !.state = "live"]])
       \/ \E e \in GssErrors :
            Goto(r, [pc |-> "returned", acquires |-> fut[r].acquires + 1,
                     result |-> Some(Err(ErrorFrom("GssApi", e)))])
    /\ UNCHANGED <<layer, mw, insts, poll, clones, log>>

\* ctx.step(&gssapi_data)?, line 202: one token exchange. The context
\* answers with an optional token and is then complete or not, or fails.
StepWith(r, T) ==
    /\ fut[r].pc = "step"
    /\ \/ \E token \in T, complete \in BOOLEAN :
            Goto(r, [pc |-> "is_complete", steps |-> fut[r].steps + 1,
                     token |-> token,
                     ctx |-> [fut[r].ctx EXCEPT !.stepped = TRUE,
                                                !.complete = complete]])
       \/ \E e \in GssErrors :
            Goto(r, [pc |-> "returned", steps |-> fut[r].steps + 1, ctx |-> Drop(fut[r].ctx),
                     result |-> Some(Err(ErrorFrom("GssApi", e)))])
    /\ UNCHANGED <<layer, mw, insts, poll, clones, log>>

Step(r) == StepWith(r, Tokens)

\* if !ctx.is_complete() { error!(..); return Err(MultipassSpnego) }, lines 204-207
IsComplete(r) ==
    /\ fut[r].pc = "is_complete"
    /\ LET complete == is_complete(fut[r].ctx)
       IN  IF complete
           THEN /\ Goto(r, [pc |-> "source_name", is_complete |-> Some(TRUE)])
                /\ UNCHANGED log
           ELSE /\ Goto(r, [pc |-> "returned", is_complete |-> Some(FALSE), ctx |-> Drop(fut[r].ctx),
                            result |-> Some(Err(Error("MultipassSpnego")))])
                /\ Log(r, "error", "currently only 2-pass SPNEGO is supported")
    /\ UNCHANGED <<layer, mw, insts, poll, clones>>

\* let upn = ctx.source_name()?.to_string();
\* req.extensions_mut().insert(Upn(upn.into())), lines 209-210
SourceName(r) ==
    /\ fut[r].pc = "source_name"
    /\ \/ \E name \in Names :
            LET upn == to_string(name)
            IN  Goto(r, [pc |-> "inner_call", names |-> fut[r].names + 1,
                         ctx |-> [fut[r].ctx EXCEPT !.source = Some(name)],
                         upn |-> Some(upn),
                         req |-> [fut[r].req EXCEPT
                                    !.extensions = insert_upn(@, upn)]])
       \/ \E e \in GssErrors :
            Goto(r, [pc |-> "returned", names |-> fut[r].names + 1, ctx |-> Drop(fut[r].ctx),
                     result |-> Some(Err(ErrorFrom("GssApi", e)))])
    /\ UNCHANGED <<layer, mw, insts, poll, clones, log>>

\* inner.call(req), lines 212-213: the instance the future took is invoked
\* with the request.
InnerCall(r) ==
    /\ fut[r].pc = "inner_call"
    /\ insts' = [insts EXCEPT ![fut[r].inner.v].calls = @ + 1]
    /\ Goto(r, [pc |-> "inner_pending"])
    /\ UNCHANGED <<layer, mw, poll, clones, log>>

\* A request routed to a handler that has no middleware in front of it.
Direct(r, H) ==
    /\ fut[r].pc = "idle"
    /\ \E h \in H :
        Goto(r, [pc |-> "inner_pending", via |-> "direct",
                 req |-> [authorization |-> h, extensions |-> [Upn |-> None]]])
    /\ UNCHANGED <<layer, mw, insts, poll, clones, log>>

\* The handler extracts the principal: Upn::from_request_parts(parts), lines 119-125
Extract(r) ==
    /\ fut[r].pc = "inner_pending"
    /\ ~fut[r].extracted.some
    /\ Goto(r, [extracted |-> Some(from_request_parts(fut[r].req))])
    /\ UNCHANGED <<layer, mw, insts, poll, clones, log>>

\* The inner service answers: .await.map_err(|x| Error::NextMiddleware(Box::new(x)))?,
\* lines 214-215. A handler without the middleware answers its caller.
InnerReturn(r) ==
    /\ fut[r].pc = "inner_pending"
    /\ \/ \E response \in InnerResponses :
            IF fut[r].via = "mw"
            THEN Goto(r, [pc |-> "decorate", inner_result |-> Some(Ok(response)),
                          response |-> Some(response)])
            ELSE Goto(r, [pc |-> "done", inner_result |-> Some(Ok(response)),
                          response |-> Some(response)])
       \/ \E x \in InnerErrors :
            IF fut[r].via = "mw"
            THEN Goto(r, [pc |-> "returned", inner_result |-> Some(Err(x)), ctx |-> Drop(fut[r].ctx),
                          result |-> Some(Err(ErrorFrom("NextMiddleware", x)))])
            ELSE Goto(r, [pc |-> "done", inner_result |-> Some(Err(x)),
                          response |-> Some(box_into_response(x))])
    /\ UNCHANGED <<layer, mw, insts, poll, clones, log>>

\* response.headers_mut().insert(WWW_AUTHENTICATE, format!(..).parse().expect(..));
\* Ok(response), lines 217-227
Decorate(r) ==
    /\ fut[r].pc = "decorate"
    /\ LET value == parse_header_value(challenge(fut[r].token))
       IN  IF value.some
           THEN LET response == insert_header(fut[r].response.v, value.v)
                IN  Goto(r, [pc |-> "returned", ctx |-> Drop(fut[r].ctx),
                             response |-> Some(response),
                             result |-> Some(Ok(response))])
           ELSE Goto(r, [pc |-> "panicked", ctx |-> Drop(fut[r].ctx), response |-> None])
    /\ UNCHANGED <<layer, mw, insts, poll, clones, log>>

\* The caller turns the outcome of the future into the HTTP response: the
\* response itself, or, in the handler of HandleErrorLayer, the error's
\* into_response after warn!("{}", e) (examples/basic.rs, 14-17).
Respond(r) ==
    /\ fut[r].pc = "returned"
    /\ LET result == fut[r].result.v
       IN  IF result.ok
           THEN /\ Goto(r, [pc |-> "done", response |-> Some(result.v)])
                /\ UNCHANGED log
           ELSE /\ Goto(r, [pc |-> "done", response |-> Some(into_response(result.e))])
                /\ Log(r, "warn", result.e.kind)
    /\ UNCHANGED <<layer, mw, insts, poll, clones>>

\* #[derive(Clone)] of the middleware, line 146: a middleware with a clone
\* of the inner service and a copy of the SPN.
CloneMw ==
    /\ mw.some
    /\ Len(clones) < MaxClones
    /\ insts' = Append(insts, [ready |-> FALSE, calls |-> 0])
    /\ clones' = Append(clones, [inner |-> Len(insts) + 1, spn |-> to_owned(mw.v.spn)])
    /\ UNCHANGED <<layer, mw, poll, fut, log>>

\* The future of r is dropped before it completed (the request is
\* aborted): the locals of the async block go out of scope, the security
\* context and the response being built among them.
Abort(r) ==
    /\ fut[r].via = "mw"
    /\ fut[r].pc \notin {"returned", "done", "panicked", "aborted"}
    /\ Goto(r, [pc |-> "aborted", ctx |-> Drop(fut[r].ctx),
                req |-> Idle.req, spn |-> None,
                authorization_header |-> None, gssapi_data |-> None,
                token |-> None, upn |-> None, response |-> None])
    /\ UNCHANGED <<layer, mw, insts, poll, clones, log>>

Next ==
    \/ New
    \/ LayerOn
    \/ PollReady
    \/ \E r \in Reqs : Call(r, Headers)
    \/ \E r \in Reqs : GetAuthorizationHeader(r)
    \/ \E r \in Reqs : StripPrefix(r)
    \/ \E r \in Reqs : DecodeGssapiData(r)
    \/ \E r \in Reqs : NewServerCtx(r)
    \/ \E r \in Reqs : Step(r)
    \/ \E r \in Reqs : IsComplete(r)
    \/ \E r \in Reqs : SourceName(r)
    \/ \E r \in Reqs : InnerCall(r)
    \/ \E r \in Reqs : Direct(r, DirectHeaders)
    \/ \E r \in Reqs : Extract(r)
    \/ \E r \in Reqs : InnerReturn(r)
    \/ \E r \in Reqs : Decorate(r)
    \/ \E r \in Reqs : Respond(r)

Spec == Init /\ [][Next]_vars

\* ------------------------------------------------------- the executor
\* One step of the future of r, or of the caller that awaits it. The
\* executor polls a future it was given until it completes, every call of
\* the security primitive returns and the inner service answers; so a step
\* that stays possible is taken.
Advance(r) ==
    \/ GetAuthorizationHeader(r)
    \/ StripPrefix(r)
    \/ DecodeGssapiData(r)
    \/ NewServerCtx(r)
    \/ Step(r)
    \/ IsComplete(r)
    \/ SourceName(r)
    \/ InnerCall(r)
    \/ InnerReturn(r)
    \/ Decorate(r)
    \/ Respond(r)

\* One header for each way through lines 181-198: none, not text, another
\* scheme, a token that is not base64, the token "AA==".
FairHeaders ==
    {None, Some(<<255>>), Some(Basic \o <<32>>),
     Some(NegotiatePrefix \o <<65, 74, 61, 61>>),
     Some(NegotiatePrefix \o <<65, 65, 61, 61>>)}

FairNext ==
    \/ New
    \/ LayerOn
    \/ PollReady
    \/ \E r \in Reqs : Call(r, FairHeaders)
    \/ \E r \in Reqs : GetAuthorizationHeader(r)
    \/ \E r \in Reqs : StripPrefix(r)
    \/ \E r \in Reqs : DecodeGssapiData(r)
    \/ \E r \in Reqs : NewServerCtx(r)
    \/ \E r \in Reqs : Step(r)
    \/ \E r \in Reqs : IsComplete(r)
    \/ \E r \in Reqs : SourceName(r)
    \/ \E r \in Reqs : InnerCall(r)
    \/ \E r \in Reqs : InnerReturn(r)
    \/ \E r \in Reqs : Decorate(r)
    \/ \E r \in Reqs : Respond(r)

FairSpec == Init /\ [][FairNext]_vars /\ \A r \in Reqs : WF_vars(Advance(r))

\* ------------------------------------------------------------ the codec
\* The decoder and the encoder on many inputs: requests that stand before
\* STANDARD.decode with a text after "Negotiate ", and authenticated
\* requests whose inner handler answered and that stand before the encoding
\* of the token.
\* 'A' 'Q' 'I' 'J' 'w' '/' '=' '!'
CodecChars == {65, 81, 73, 74, 119, 47, 61, 33}
CodecTexts ==
    SeqsUpTo(CodecChars, MaxCodec) \cup SeqsUpTo({65, 47, 61}, MaxLong)
CodecTokens ==
    {None} \cup {Some(t) : t \in SeqsUpTo({0, 1, 2, 127, 255}, MaxCodecTok)}

\* The future after lines 181-193 found the text s after the prefix.
BeforeDecode(s) ==
    Merge(Idle,
          [pc |-> "decode", via |-> "mw",
           req |-> [authorization |-> Some(NegotiatePrefix \o s),
                    extensions |-> [Upn |-> None]],
           inner |-> Some(1), spn |-> Some(<<72, 84, 84, 80, 47, 97>>),
           authorization_header |-> Some(NegotiatePrefix \o s),
           gssapi_data |-> Some(s)])

\* The future after line 215: authenticated, with the token of step and
\* the response of the inner handler.
BeforeDecorate(token, response) ==
    Merge(Idle,
          [pc |-> "decorate", via |-> "mw",
           req |-> [authorization |-> Some(NegotiatePrefix),
                    extensions |-> [Upn |-> Some("alice@EXAMPLE.COM")]],
           inner |-> Some(1), spn |-> Some(<<72, 84, 84, 80, 47, 97>>),
           authorization_header |-> Some(NegotiatePrefix),
           gssapi_data |-> Some(<<>>),
           ctx |-> [state |-> "live", stepped |-> TRUE, complete |-> TRUE,
                    source |-> Some([display |-> "alice@EXAMPLE.COM"])],
           token |-> token, is_complete |-> Some(TRUE),
           upn |-> Some("alice@EXAMPLE.COM"),
           acquires |-> 1, steps |-> 1, names |-> 1,
           inner_result |-> Some(Ok(response)), response |-> Some(response)])

CodecInit ==
    /\ layer = Some([arg |-> <<72, 84, 84, 80, 47, 97>>,
                     result |-> new(<<72, 84, 84, 80, 47, 97>>)])
    /\ mw = Some([inner |-> 2, spn |-> <<72, 84, 84, 80, 47, 97>>])
    /\ poll = None
    /\ clones = <<>>
    /\ log = [r \in Reqs |-> <<>>]
    /\ \/ /\ insts = <<[ready |-> TRUE, calls |-> 0], [ready |-> FALSE, calls |-> 0]>>
          /\ \E s \in CodecTexts : fut = [r \in Reqs |-> BeforeDecode(s)]
       \/ /\ insts = <<[ready |-> TRUE, calls |-> 1], [ready |-> FALSE, calls |-> 0]>>
          /\ \E token \in CodecTokens :
                fut = [r \in Reqs |-> BeforeDecorate(token, Response(200, "hello", <<>>))]

CodecNext ==
    \/ \E r \in Reqs : DecodeGssapiData(r)
    \/ \E r \in Reqs : Decorate(r)

CodecSpec == CodecInit /\ [][CodecNext]_vars

\* ------------------------------------------------ the service under load
\* Two requests in flight at once on one middleware, with clones of the
\* middleware and aborted requests; fewer headers and tokens per request.
SvcReqs == {1, 2}
\* "" and "HTTP/a", and two names that are not ASCII: U+00E9, "HTTP/" U+00E9.
SvcSpns == {<<>>, <<72, 84, 84, 80, 47, 97>>, <<195, 169>>, <<72, 84, 84, 80, 47, 195, 169>>}
\* No header, "Basic ", "Negotiate AA==" (the byte 0) and "Negotiate AJ=="
\* (not canonical base64).
SvcHeaders ==
    {None, Some(Basic \o <<32>>),
     Some(NegotiatePrefix \o <<65, 65, 61, 61>>),
     Some(NegotiatePrefix \o <<65, 74, 61, 61>>)}
SvcTokens == {None, Some(<<1, 2>>)}

SvcInit ==
    /\ layer = None
    /\ mw = None
    /\ insts = <<>>
    /\ poll = None
    /\ clones = <<>>
    /\ fut = [r \in SvcReqs |-> Idle]
    /\ log = [r \in SvcReqs |-> <<>>]

SvcNext ==
    \/ NewFrom(SvcSpns)
    \/ LayerOn
    \/ CloneMw
    \/ PollReady
    \/ \E r \in SvcReqs : Call(r, SvcHeaders)
    \/ \E r \in SvcReqs : GetAuthorizationHeader(r)
    \/ \E r \in SvcReqs : StripPrefix(r)
    \/ \E r \in SvcReqs : DecodeGssapiData(r)
    \/ \E r \in SvcReqs : NewServerCtx(r)
    \/ \E r \in SvcReqs : StepWith(r, SvcTokens)
    \/ \E r \in SvcReqs : IsComplete(r)
    \/ \E r \in SvcReqs : SourceName(r)
    \/ \E r \in SvcReqs : InnerCall(r)
    \/ \E r \in SvcReqs : InnerReturn(r)
    \/ \E r \in SvcReqs : Decorate(r)
    \/ \E r \in SvcReqs : Respond(r)
    \/ \E r \in SvcReqs : Abort(r)

SvcSpec == SvcInit /\ [][SvcNext]_vars

\* ----------------------------------------------------------------- claims
\* The request went through NegotiateAuthLayerMiddleware::call.
ByMiddleware(r) == fut[r].via = "mw"

\* How often the inner service instance that r's future took was invoked.
InnerCalls(r) == IF fut[r].inner.some THEN insts[fut[r].inner.v].calls ELSE 0

\* The header value v is text: visible ASCII and tabs only.
IsText(v) == \A i \in 1..Len(v) : (v[i] >= 32 /\ v[i] <= 126) \/ v[i] = 9

\* The header value v starts with "Negotiate ".
HasNegotiatePrefix(v) ==
    /\ Len(v) >= Len(NegotiatePrefix)
    /\ \A i \in 1..Len(NegotiatePrefix) : v[i] = NegotiatePrefix[i]

\* What follows "Negotiate " in v.
AfterPrefix(v) == SubSeq(v, Len(NegotiatePrefix) + 1, Len(v))

\* The Authorization header of r is absent, is not text, or lacks the prefix.
BadHeader(r) ==
    LET h == fut[r].req.authorization
    IN  \/ ~h.some
        \/ ~IsText(h.v)
        \/ ~HasNegotiatePrefix(h.v)

\* The header of r has the prefix and what follows is not valid base64.
BadToken(r) ==
    LET h == fut[r].req.authorization
    IN  /\ h.some
        /\ IsText(h.v)
        /\ HasNegotiatePrefix(h.v)
        /\ ~Decode(AfterPrefix(h.v)).ok

\* The negotiation of r itself reached Authenticated: header parsed, token
\* decoded, context acquired, one step that succeeded, context complete,
\* principal extracted.
Authenticated(r) ==
    LET h == fut[r].req.authorization
    IN  /\ h.some /\ IsText(h.v) /\ HasNegotiatePrefix(h.v)
        /\ fut[r].authorization_header = Some(h.v)
        /\ fut[r].gssapi_data.some
        /\ Decode(AfterPrefix(h.v)) = Ok(fut[r].gssapi_data.v)
        /\ fut[r].acquires = 1 /\ fut[r].ctx.state # "none"
        /\ fut[r].steps = 1 /\ fut[r].ctx.stepped
        /\ fut[r].ctx.complete
        /\ fut[r].names = 1 /\ fut[r].ctx.source.some
        /\ fut[r].upn = Some(fut[r].ctx.source.v.display)

\* The future of r returned an error of the negotiation itself.
Rejected(r) ==
    /\ fut[r].result.some
    /\ ~fut[r].result.v.ok
    /\ fut[r].result.v.e.kind # "NextMiddleware"

\* C1: for a request handled by the middleware the inner handler is invoked
\* at most once and only after the request's own negotiation reached
\* Authenticated; when the middleware rejects, the inner handler was never
\* invoked.
C1_InnerOnlyAfterAuthenticated ==
    \A r \in Reqs :
        ByMiddleware(r) =>
            /\ InnerCalls(r) <= 1
            /\ InnerCalls(r) = 1 => Authenticated(r)
            /\ Rejected(r) => InnerCalls(r) = 0

\* A request that was authenticated, whose inner handler ran, and that is answered.
C1_Witness ==
    \E r \in Reqs :
        ByMiddleware(r) /\ InnerCalls(r) = 1 /\ fut[r].pc = "done" /\ Authenticated(r)

\* C2: a Principal (Upn extension) is on the request only if the security
\* context reported its exchange complete after exactly one call of step.
C2_UpnOnlyIfCompleteAfterOneStep ==
    \A r \in Reqs :
        fut[r].req.extensions.Upn.some =>
            /\ fut[r].steps = 1
            /\ fut[r].ctx.stepped
            /\ fut[r].ctx.complete

\* A request with the Principal attached.
C2_Witness ==
    \E r \in Reqs : fut[r].req.extensions.Upn.some /\ fut[r].steps = 1

\* C3: a request whose Authorization header is absent, is not a header
\* string, or does not start with "Negotiate " never gets a security context,
\* and its response is 401 with WWW-Authenticate: Negotiate.
C3_BadHeaderUnauthorized ==
    \A r \in Reqs :
        ByMiddleware(r) /\ BadHeader(r) =>
            /\ fut[r].acquires = 0
            /\ fut[r].ctx.state = "none"
            /\ fut[r].pc = "done" =>
                /\ fut[r].response.v.status = 401
                /\ fut[r].response.v.www_authenticate = <<Negotiate>>

\* A request answered whose header is text of another scheme.
C3_Witness ==
    \E r \in Reqs :
        /\ ByMiddleware(r) /\ fut[r].pc = "done"
        /\ fut[r].req.authorization.some
        /\ IsText(fut[r].req.authorization.v)
        /\ ~HasNegotiatePrefix(fut[r].req.authorization.v)
        /\ fut[r].response.v.status = 401

\* C4: a request whose header has the prefix "Negotiate " and then text that
\* is not valid base64 never gets a security context, acquired or stepped,
\* and its response is 400 without a WWW-Authenticate header.
C4_BadTokenBadRequest ==
    \A r \in Reqs :
        ByMiddleware(r) /\ BadToken(r) =>
            /\ fut[r].acquires = 0
            /\ fut[r].steps = 0
            /\ fut[r].ctx.state = "none"
            /\ fut[r].pc = "done" =>
                /\ fut[r].response.v.status = 400
                /\ fut[r].response.v.www_authenticate = <<>>

\* A request answered whose token has non-zero trailing bits ("AJ==").
C4_Witness ==
    \E r \in Reqs :
        /\ ByMiddleware(r) /\ fut[r].pc = "done"
        /\ fut[r].req.authorization = Some(NegotiatePrefix \o <<65, 74, 61, 61>>)
        /\ BadToken(r)
        /\ fut[r].response.v.status = 400

\* The context of r took one step and reports that it is not complete.
Incomplete(r) == fut[r].ctx.stepped /\ ~fut[r].ctx.complete

\* C5: when the context reports complete = false after one step, the inner
\* handler is not invoked, no second step is made, no principal is extracted
\* or attached, and the response is 500.
C5_IncompleteRejected ==
    \A r \in Reqs :
        ByMiddleware(r) /\ Incomplete(r) =>
            /\ InnerCalls(r) = 0
            /\ fut[r].steps = 1
            /\ fut[r].names = 0
            /\ ~fut[r].upn.some
            /\ ~fut[r].req.extensions.Upn.some
            /\ fut[r].pc = "done" => fut[r].response.v.status = 500

\* A request answered after its context reported that it is not complete.
C5_Witness ==
    \E r \in Reqs :
        /\ ByMiddleware(r) /\ Incomplete(r) /\ fut[r].pc = "done"
        /\ fut[r].response.v.status = 500

\* The inner handler of r answered with a response.
InnerAnswered(r) == fut[r].inner_result.some /\ fut[r].inner_result.v.ok

\* The inner handler of r failed.
InnerFailed(r) == fut[r].inner_result.some /\ ~fut[r].inner_result.v.ok

\* The bytes of the continuation token of r, none being no bytes.
TokenBytes(r) == IF fut[r].token.some THEN fut[r].token.v ELSE <<>>

\* C6: when the negotiation is Authenticated and the inner handler answers,
\* the final response has one WWW-Authenticate value, "Negotiate " followed
\* by the standard base64 of the token of the step ("Negotiate AQI=" for
\* the bytes 1, 2; "Negotiate " alone for no token), whatever the inner
\* handler set, and the status and body are the inner handler's.
C6_ChallengeOnSuccess ==
    \A r \in Reqs :
        ByMiddleware(r) /\ InnerAnswered(r) /\ fut[r].pc = "done" =>
            LET www == fut[r].response.v.www_authenticate
            IN  /\ Len(www) = 1
                /\ HasNegotiatePrefix(www[1])
                /\ Decode(AfterPrefix(www[1])) = Ok(TokenBytes(r))
                /\ fut[r].token = Some(<<1, 2>>) =>
                        www[1] = NegotiatePrefix \o <<65, 81, 73, 61>>
                /\ ~fut[r].token.some => www[1] = NegotiatePrefix
                /\ fut[r].response.v.status = fut[r].inner_result.v.v.status
                /\ fut[r].response.v.body = fut[r].inner_result.v.v.body

\* A request answered "Negotiate AQI=" over an inner response that set two
\* WWW-Authenticate values of its own.
C6_Witness ==
    \E r \in Reqs :
        /\ ByMiddleware(r) /\ InnerAnswered(r) /\ fut[r].pc = "done"
        /\ fut[r].token = Some(<<1, 2>>)
        /\ Len(fut[r].inner_result.v.v.www_authenticate) = 2
        /\ fut[r].response.v.www_authenticate = <<NegotiatePrefix \o <<65, 81, 73, 61>>>>

\* C7: when the inner handler fails after a successful negotiation, the
\* status and body of the inner failure pass through and the response still
\* carries the challenge "Negotiate <base64>" whenever the step produced a
\* continuation token (one that has bytes).
C7_InnerFailureDecorated ==
    \A r \in Reqs :
        ByMiddleware(r) /\ InnerFailed(r) /\ fut[r].pc = "done" =>
            /\ fut[r].response.v.status = fut[r].inner_result.v.e.resp.status
            /\ fut[r].response.v.body = fut[r].inner_result.v.e.resp.body
            /\ fut[r].token.some /\ Len(fut[r].token.v) > 0 =>
                fut[r].response.v.www_authenticate = <<challenge(fut[r].token)>>

\* C8: once the inner handler is invoked, the Upn extension of the request
\* is the source identity of the request's own context, and an extraction
\* of Upn from that request gives that identity.
C8_PrincipalIsSourceIdentity ==
    \A r \in Reqs :
        ByMiddleware(r) /\ (fut[r].pc = "inner_call" \/ InnerCalls(r) >= 1) =>
            /\ fut[r].ctx.source.some
            /\ fut[r].req.extensions.Upn = Some(fut[r].ctx.source.v.display)
            /\ fut[r].extracted.some =>
                /\ fut[r].extracted.v.ok
                /\ fut[r].extracted.v.v = fut[r].ctx.source.v.display

\* The handler behind the middleware extracted bob's identity.
C8_Witness ==
    \E r \in Reqs :
        /\ ByMiddleware(r) /\ InnerCalls(r) = 1
        /\ fut[r].extracted = Some(Ok("bob@EXAMPLE.COM"))

\* C9: an extraction of Upn leaves the request as it was, and on a request
\* without a Principal it fails with UpnExtensionNotFound.
C9_ExtractionWithoutPrincipalFails ==
    [][\A r \in Reqs :
            ~fut[r].extracted.some /\ fut'[r].extracted.some =>
                /\ fut'[r].req = fut[r].req
                /\ ~fut[r].req.extensions.Upn.some =>
                    /\ ~fut'[r].extracted.v.ok
                    /\ fut'[r].extracted.v.e.kind = "UpnExtensionNotFound"]_vars

\* A handler without the middleware in front of it extracted, and got the error.
C9_Witness ==
    \E r \in Reqs :
        /\ fut[r].via = "direct"
        /\ fut[r].extracted.some
        /\ ~fut[r].extracted.v.ok
        /\ ~fut[r].req.extensions.Upn.some

\* The negotiation of r failed inside the server: the context was not
\* acquired, the step failed, the exchange was not complete, or the
\* principal could not be extracted.
AcquisitionFailed(r) == fut[r].acquires = 1 /\ fut[r].ctx.state = "none"
StepFailed(r) == fut[r].steps = 1 /\ ~fut[r].ctx.stepped
ExtractionFailed(r) == fut[r].names = 1 /\ ~fut[r].ctx.source.some
InternalFailure(r) ==
    AcquisitionFailed(r) \/ StepFailed(r) \/ Incomplete(r) \/ ExtractionFailed(r)

\* C10: every internal failure (acquisition, step, incomplete negotiation,
\* principal extraction), whatever the primitive's error text, is answered
\* by the same response: 500, "internal server error", no WWW-Authenticate.
C10_InternalFailuresAlike ==
    \A r \in Reqs :
        ByMiddleware(r) /\ InternalFailure(r) /\ fut[r].pc = "done" =>
            fut[r].response.v = Response(500, "internal server error", <<>>)

\* A request answered after source_name failed with GSS_S_NO_CRED.
C10_Witness ==
    \E r \in Reqs :
        /\ ByMiddleware(r) /\ ExtractionFailed(r) /\ fut[r].pc = "done"
        /\ fut[r].result.v.e.src = Some("GSS_S_NO_CRED")

\* The value v is a Negotiate challenge: the scheme alone, or "Negotiate "
\* followed by base64 (that may be empty).
IsChallenge(v) ==
    \/ v = Negotiate
    \/ HasNegotiatePrefix(v) /\ Decode(AfterPrefix(v)).ok

\* The future of r returned Ok(response).
Succeeded(r) == fut[r].result.some /\ fut[r].result.v.ok

\* C11, as claimed: every response of the middleware, rejection or success,
\* carries a WWW-Authenticate challenge of the Negotiate scheme.
C11_ChallengeOnEveryResponse ==
    \A r \in Reqs :
        ByMiddleware(r) /\ fut[r].pc = "done" /\ (Rejected(r) \/ Succeeded(r)) =>
            /\ Len(fut[r].response.v.www_authenticate) = 1
            /\ IsChallenge(fut[r].response.v.www_authenticate[1])

\* C11, amended: a successful response carries "Negotiate " and the base64
\* of the token; of the rejections, the one for a missing or malformed
\* header carries the bare "Negotiate", and those for an undecodable token
\* or an internal failure carry no WWW-Authenticate at all.
C11_ChallengeOnSuccessAnd401Only ==
    \A r \in Reqs :
        ByMiddleware(r) /\ fut[r].pc = "done" =>
            LET www == fut[r].response.v.www_authenticate
            IN  /\ Succeeded(r) => www = <<NegotiatePrefix \o Encode(TokenBytes(r))>>
                /\ Rejected(r) /\ BadHeader(r) => www = <<Negotiate>>
                /\ Rejected(r) /\ ~BadHeader(r) => www = <<>>

\* A request rejected for an internal failure, answered without the header.
C11_Witness ==
    \E r \in Reqs :
        /\ ByMiddleware(r) /\ fut[r].pc = "done"
        /\ Rejected(r) /\ InternalFailure(r)
        /\ fut[r].response.v.www_authenticate = <<>>

\* What the response to r must be, from r's own header, the results of r's
\* own security context and the answer of the inner handler to r.
OwnOutcome(r) ==
    IF BadHeader(r) THEN Response(401, "unauthorized", <<Negotiate>>)
    ELSE IF BadToken(r) THEN Response(400, "bad request", <<>>)
    ELSE IF InternalFailure(r) THEN Response(500, "internal server error", <<>>)
    ELSE IF InnerFailed(r) THEN fut[r].inner_result.v.e.resp
    ELSE [fut[r].inner_result.v.v EXCEPT
            !.www_authenticate = <<NegotiatePrefix \o Encode(TokenBytes(r))>>]

\* C12: with two requests in flight in any interleaving and in any order,
\* a request reaches the inner handler only on its own negotiation, the
\* principal on it is the identity of its own context, and its response is
\* decided by its own header and its own context alone.
C12_RequestsIndependent ==
    \A r \in SvcReqs :
        ByMiddleware(r) /\ fut[r].pc # "aborted" =>
            /\ InnerCalls(r) >= 1 => Authenticated(r)
            /\ fut[r].req.extensions.Upn.some =>
                /\ fut[r].ctx.stepped /\ fut[r].ctx.source.some
                /\ fut[r].req.extensions.Upn.v = fut[r].ctx.source.v.display
            /\ fut[r].pc = "done" => fut[r].response.v = OwnOutcome(r)

\* One request authenticated as alice is answered, and the other, with a
\* header of another scheme, is answered 401.
C12_Witness ==
    \E r, q \in SvcReqs :
        /\ r # q
        /\ ByMiddleware(r) /\ fut[r].pc = "done" /\ Succeeded(r)
        /\ fut[r].req.extensions.Upn = Some("alice@EXAMPLE.COM")
        /\ ByMiddleware(q) /\ fut[q].pc = "done" /\ BadHeader(q)
        /\ fut[q].response.v.status = 401

\* Every byte of s is an ASCII character.
IsAsciiText(s) == \A i \in 1..Len(s) : s[i] >= 0 /\ s[i] <= 127

\* C13: NegotiateAuthLayer::new succeeds exactly for an ASCII SPN, and fails
\* with InvalidSpn otherwise; the middleware made by layer, its clones and
\* the copy of the SPN each call takes carry that SPN, which is ASCII.
C13_SpnAsciiAsConstructed ==
    /\ layer.some =>
        /\ layer.v.result.ok <=> IsAsciiText(layer.v.arg)
        /\ layer.v.result.ok => layer.v.result.v.spn = layer.v.arg
        /\ ~layer.v.result.ok => layer.v.result.e.kind = "InvalidSpn"
    /\ mw.some =>
        /\ layer.some /\ layer.v.result.ok
        /\ mw.v.spn = layer.v.arg
        /\ IsAsciiText(mw.v.spn)
    /\ \A i \in 1..Len(clones) :
        mw.some /\ clones[i].spn = layer.v.arg /\ IsAsciiText(clones[i].spn)
    /\ \A r \in SvcReqs :
        fut[r].spn.some => mw.some /\ fut[r].spn.v = layer.v.arg

\* The layer made for "HTTP/a", its middleware, a clone of it, and a call
\* that took its copy of the SPN.
C13_Witness ==
    /\ layer.some /\ layer.v.arg = <<72, 84, 84, 80, 47, 97>>
    /\ mw.some /\ mw.v.spn = <<72, 84, 84, 80, 47, 97>>
    /\ Len(clones) >= 1
    /\ \E r \in SvcReqs : fut[r].spn = Some(<<72, 84, 84, 80, 47, 97>>)

\* C14: the text the request decoder accepted is what the challenge encoder
\* makes of the decoded bytes, and the text the challenge encoder made of a
\* token decodes to the bytes of the token.
C14_Base64RoundTrip ==
    \A r \in Reqs :
        /\ fut[r].pc = "new_server_ctx" =>
            Encode(fut[r].gssapi_data.v) = AfterPrefix(fut[r].authorization_header.v)
        /\ fut[r].pc = "returned" /\ Succeeded(r) =>
            /\ Len(fut[r].result.v.v.www_authenticate) = 1
            /\ Decode(AfterPrefix(fut[r].result.v.v.www_authenticate[1]))
                    = Ok(TokenBytes(r))

\* The decoder accepted "AQI=" as the bytes 1, 2.
C14_Witness ==
    \E r \in Reqs :
        /\ fut[r].pc = "new_server_ctx"
        /\ fut[r].authorization_header = Some(NegotiatePrefix \o <<65, 81, 73, 61>>)
        /\ fut[r].gssapi_data = Some(<<1, 2>>)

\* C15: within one request acquisition, token exchange and principal
\* extraction each happen at most once; the exchange happens only on the
\* context a completed acquisition gave, the extraction only on a context
\* whose exchange completed; a request that reached the inner handler went
\* through all three; after a failed one nothing further is tried.
C15_NegotiationSequential ==
    \A r \in Reqs :
        ByMiddleware(r) =>
            /\ fut[r].acquires \in {0, 1}
            /\ fut[r].steps \in {0, 1}
            /\ fut[r].names \in {0, 1}
            /\ fut[r].steps = 1 => fut[r].acquires = 1 /\ fut[r].ctx.state # "none"
            /\ fut[r].names = 1 =>
                fut[r].steps = 1 /\ fut[r].ctx.stepped /\ fut[r].ctx.complete
            /\ fut[r].pc \in {"inner_call", "inner_pending", "decorate"} \/ InnerCalls(r) > 0 =>
                /\ fut[r].acquires = 1 /\ fut[r].steps = 1 /\ fut[r].names = 1
                /\ fut[r].ctx.source.some
            /\ AcquisitionFailed(r) =>
                fut[r].steps = 0 /\ fut[r].names = 0 /\ fut[r].pc \in {"returned", "done"}
            /\ StepFailed(r) => fut[r].names = 0 /\ fut[r].pc \in {"returned", "done"}
            /\ ExtractionFailed(r) => fut[r].pc \in {"returned", "done"}

\* A request that succeeded, whose three steps each ran once.
C15_Witness ==
    /\ \E r \in Reqs :
        /\ ByMiddleware(r) /\ fut[r].pc = "done" /\ Succeeded(r)
        /\ fut[r].acquires = 1 /\ fut[r].steps = 1 /\ fut[r].names = 1

\* The entries the middleware itself wrote for r (debug! and error! of
\* lib.rs; warn! is the caller's, in examples/basic.rs).
MiddlewareEntries(r) ==
    {i \in 1..Len(log[r]) : log[r][i].level \in {"debug", "error"}}

\* C16, as claimed: in each internal-failure case (acquisition failure, step
\* failure, incomplete negotiation, principal-extraction failure) the
\* middleware has written exactly one log entry for the request by the time
\* its future returned.
C16_OneLogEntryPerInternalFailure ==
    \A r \in Reqs :
        ByMiddleware(r) /\ InternalFailure(r) /\ fut[r].pc \in {"returned", "done"} =>
            Cardinality(MiddlewareEntries(r)) = 1

\* C17: every request the middleware handles ends with a response: the
\* inner handler's decorated one or the one its Error maps to. Until then
\* the caller has no response of it; the response that completed the request
\* is the only one: nothing of the request changes afterwards.
C17_ExactlyOneOutcome ==
    /\ \A r \in Reqs :
        ByMiddleware(r) ~> (fut[r].pc = "done" /\ fut[r].response.some)
    /\ [][\A r \in Reqs :
            /\ ByMiddleware(r) /\ fut'[r].pc = "done" /\ fut[r].pc # "done" =>
                /\ fut[r].pc = "returned" /\ fut[r].result.some
                /\ fut'[r].response =
                    Some(IF fut[r].result.v.ok THEN fut[r].result.v.v
                         ELSE into_response(fut[r].result.v.e))
            /\ ByMiddleware(r) /\ fut[r].pc = "done" => fut'[r] = fut[r]]_vars

\* A request that ended with the response of the inner service's error.
C17_Witness ==
    \E r \in Reqs :
        /\ ByMiddleware(r) /\ fut[r].pc = "done"
        /\ fut[r].result.some /\ ~fut[r].result.v.ok
        /\ fut[r].result.v.e.kind = "NextMiddleware"
        /\ fut[r].response = Some(box_into_response(fut[r].result.v.e.src.v))

\* C18: when a request is aborted, before or while the inner handler is
\* pending, its security context is no longer held and the response being
\* built is gone, and they stay so; the abort changes nothing else: not the
\* layer, the middleware's SPN and inner service, the service instances, the
\* clones, the log, nor the state of any other request.
C18_AbortReleasesOwnStateOnly ==
    /\ [](\A r \in DOMAIN fut :
            fut[r].pc = "aborted" =>
                fut[r].ctx.state # "live" /\ fut[r].response = None)
    /\ [][\A r \in DOMAIN fut :
            fut[r].pc # "aborted" /\ fut'[r].pc = "aborted" =>
                /\ ByMiddleware(r)
                /\ fut'[r].ctx = Drop(fut[r].ctx)
                /\ layer' = layer /\ mw' = mw /\ insts' = insts
                /\ poll' = poll /\ clones' = clones /\ log' = log
                /\ \A q \in DOMAIN fut : q # r => fut'[q] = fut[q]]_vars

\* One request was aborted while its inner handler was pending and its
\* context was deleted; another is in flight and holds its own context.
C18_Witness ==
    \E r, q \in DOMAIN fut :
        /\ r # q
        /\ fut[r].pc = "aborted" /\ fut[r].ctx.state = "dropped"
        /\ fut[r].ctx.source.some /\ InnerCalls(r) = 1
        /\ fut[q].pc = "inner_pending" /\ fut[q].ctx.state = "live"

\* C19: a call gives its future the inner service instance the middleware
\* held, the one poll_ready reported ready, and leaves the middleware a new
\* instance; so an instance that was invoked is one that was polled ready and
\* is not the one the middleware holds, no two futures hold the same
\* instance, and no instance is invoked twice.
C19_CallTakesPolledInstance ==
    /\ [](\A r \in DOMAIN fut :
            fut[r].inner.some =>
                /\ insts[fut[r].inner.v].ready
                /\ insts[fut[r].inner.v].calls <= 1
                /\ mw.v.inner # fut[r].inner.v
                /\ insts[mw.v.inner].calls = 0
                /\ \A q \in DOMAIN fut :
                    q # r /\ fut[q].inner.some => fut[q].inner.v # fut[r].inner.v)
    /\ [][\A r \in DOMAIN fut :
            fut[r].pc = "idle" /\ fut'[r].pc = "get_header" =>
                /\ fut'[r].inner = Some(mw.v.inner)
                /\ poll = Some(Ok(mw.v.inner))
                /\ mw'.v.inner \notin DOMAIN insts
                /\ mw'.v.inner \in DOMAIN insts'
                /\ ~insts'[mw'.v.inner].ready
                /\ insts'[mw'.v.inner].calls = 0]_vars

\* Two calls, each of which invoked the instance it took; the middleware
\* holds a third instance, which nobody invoked.
C19_Witness ==
    \E r, q \in DOMAIN fut :
        /\ r # q
        /\ fut[r].inner.some /\ fut[q].inner.some
        /\ InnerCalls(r) = 1 /\ InnerCalls(q) = 1
        /\ mw.v.inner \notin {fut[r].inner.v, fut[q].inner.v}
        /\ insts[mw.v.inner].calls = 0

====
